---- MODULE Spec2Model ----
(***************************************************************************)
(* Amalgamation: the dependency graph (amalgamation/graph.py), the symbol  *)
(* registry that feeds it (amalgamation/amalgamation.py) and the           *)
(* declaration classes used as graph nodes (amalgamation/declarations.py). *)
(*                                                                         *)
(* A Python object is modelled as a record [key, id]: `key` is what        *)
(* __hash__/__eq__ compare (for Symbol and _Type: the class and the USR),  *)
(* `id` is the object's identity, which is what `is` compares.  Sets and   *)
(* dictionaries are keyed by hash/eq, so the graph's state holds keys.     *)
(***************************************************************************)
EXTENDS Integers, Sequences, FiniteSets, TLC

\* ------------------------------------------------------------- bounds
NumKeys == 3      \* distinct hashable values offered to Graph.add_edge
NumObjs == 2      \* distinct objects per value (equal, not identical)
MaxEdges == 3     \* add_edge calls of one run
MaxArgs == 1      \* parameters of a function declaration
MaxDup == 1       \* repeated sightings of already admitted symbols

\* ------------------------------------------------- clang.cindex.TypeKind
VOID == 2
NULLPTR == 24
POINTER == 101
TYPEDEF == 107
ELABORATED == 119

VARIABLES
    nodes,      \* Graph._nodes: set of node keys
    graph,      \* Graph._graph: defaultdict(list), key -> list of keys
    usr,        \* Amalgamation.usr: USR -> registered symbol
    log,        \* number of "Symbol duplicate" records _symbol_visitor logged
    pc,         \* "idle" | "sort" | "sorted" | "failed" | "content"
    raised,     \* the exception that ended the run, or "none"
    visited,    \* topological_sort: visited
    stack,      \* topological_sort: stack (the list it returns)
    frames,     \* activations of _topological_sort_util: [node, i]
    entered,    \* history: how often _topological_sort_util was entered, per node
    earlier,    \* the list returned by an earlier run of the same add_edge calls
    content     \* get_content: the lines of `content`

vars == <<nodes, graph, usr, log, pc, raised, visited, stack, frames, entered,
          earlier, content>>

Range(s) == {s[i] : i \in 1..Len(s)}

NoResult == [run |-> FALSE, list |-> <<>>]

\* ------------------------------------------------------------ graph.py

\* self._graph[k] of a defaultdict(list), read only
GraphGet(g, k) == IF k \in DOMAIN g THEN g[k] ELSE <<>>

\* self._graph[k] as an access: a defaultdict creates the missing entry
GraphTouch(g, k) == [x \in DOMAIN g \cup {k} |-> GraphGet(g, x)]

\* the assertion of add_edge: `u is not v` compares objects
SameNode(u, v) == u.id = v.id /\ u.key = v.key

\* self._nodes.update({u, v})
NodesUpdate(s, u, v) == s \cup {u.key, v.key}

\* self._graph[u].append(v)
GraphAppend(g, u, v) ==
    [x \in DOMAIN g \cup {u.key} |->
        IF x = u.key THEN Append(GraphGet(g, x), v.key) ELSE g[x]]

RECURSIVE SumLen(_, _)
SumLen(g, S) ==
    IF S = {} THEN 0
    ELSE LET k == CHOOSE x \in S : TRUE IN Len(g[k]) + SumLen(g, S \ {k})

\* add_edge calls made so far (each appends one element to one list)
EdgeCount == SumLen(graph, DOMAIN graph)

MarkVisitedNever(v, node) == v

\* visited[node] = True
MarkVisited(v, node) == [v EXCEPT ![node] = TRUE]

ShouldRecurAlways(v, i) == TRUE

\* if not visited[i]
ShouldRecur(v, i) == ~v[i]

StackAppend(s, node) == Append(s, node)

\* stack.insert(0, node)
StackInsert(s, node) == <<node>> \o s

\* the values and objects a caller of Graph can pass
Keys == 1..NumKeys
Objects == [key : Keys, id : 1..NumObjs]

SortLocals == <<visited, stack, frames, entered>>
AmalVars == <<usr, log, content>>

\* Graph.add_edge(u, v) on the graph object G = [nodes, graph, raised]; an
\* exception raised earlier in the same handler has already left it
AddEdgeTo(G, u, v) ==
    IF G.raised # "none" THEN G
    ELSE IF SameNode(u, v) THEN [G EXCEPT !.raised = "AssertionError"]
    ELSE [G EXCEPT !.nodes = NodesUpdate(G.nodes, u, v),
                   !.graph = GraphAppend(G.graph, u, v)]

\* a caller of Graph.add_edge(u, v); the AssertionError ends the run
AddEdge(u, v) ==
    /\ pc = "idle"
    /\ ~earlier.run
    /\ EdgeCount < MaxEdges
    /\ LET G == AddEdgeTo([nodes |-> nodes, graph |-> graph, raised |-> raised],
                          u, v)
       IN /\ nodes' = G.nodes
          /\ graph' = G.graph
          /\ raised' = G.raised
          /\ pc' = IF G.raised = "none" THEN pc ELSE "failed"
    /\ UNCHANGED <<SortLocals, AmalVars, earlier>>

\* topological_sort: visited = {k: False for k in self._nodes}; stack = []
TopologicalSort ==
    /\ pc = "idle"
    /\ pc' = "sort"
    /\ visited' = [k \in nodes |-> FALSE]
    /\ stack' = <<>>
    /\ frames' = <<>>
    /\ entered' = [k \in nodes |-> 0]
    /\ UNCHANGED <<nodes, graph, raised, earlier, AmalVars>>

\* entry of _topological_sort_util(node, visited, stack), up to the head of
\* its for loop, which reads self._graph[node]
UtilEnter(node, callers) ==
    /\ visited' = MarkVisited(visited, node)
    /\ graph' = GraphTouch(graph, node)
    /\ frames' = Append(callers, [node |-> node, i |-> 1])
    /\ entered' = [entered EXCEPT ![node] = @ + 1]

\* topological_sort: for node in visited.keys(): if not visited[node]: ...
\* visited is built from a set, whose iteration order is unspecified, and the
\* loop skips visited nodes: each call starts at some unvisited node.
SortCall ==
    /\ pc = "sort"
    /\ frames = <<>>
    /\ \E node \in nodes :
          /\ ~visited[node]
          /\ UtilEnter(node, frames)
    /\ UNCHANGED <<nodes, usr, log, pc, raised, stack, earlier, content>>

\* _topological_sort_util: for i in self._graph[node]: if not visited[i]: recur
UtilRecur ==
    /\ pc = "sort"
    /\ frames # <<>>
    /\ LET top == frames[Len(frames)]
           adj == GraphGet(graph, top.node)
       IN /\ top.i <= Len(adj)
          /\ ShouldRecur(visited, adj[top.i])
          /\ UtilEnter(adj[top.i],
                       [frames EXCEPT ![Len(frames)].i = @ + 1])
    /\ UNCHANGED <<nodes, usr, log, pc, raised, stack, earlier, content>>

\* _topological_sort_util: the loop passes over a visited successor
UtilSkip ==
    /\ pc = "sort"
    /\ frames # <<>>
    /\ LET top == frames[Len(frames)]
           adj == GraphGet(graph, top.node)
       IN /\ top.i <= Len(adj)
          /\ ~ShouldRecur(visited, adj[top.i])
          /\ frames' = [frames EXCEPT ![Len(frames)].i = @ + 1]
    /\ UNCHANGED <<nodes, graph, usr, log, pc, raised, visited, stack, entered,
                   earlier, content>>

\* _topological_sort_util: stack.insert(0, node), then return
UtilReturn ==
    /\ pc = "sort"
    /\ frames # <<>>
    /\ LET top == frames[Len(frames)]
           adj == GraphGet(graph, top.node)
       IN /\ top.i > Len(adj)
          /\ stack' = StackInsert(stack, top.node)
          /\ frames' = SubSeq(frames, 1, Len(frames) - 1)
    /\ UNCHANGED <<nodes, graph, usr, log, pc, raised, visited, entered,
                   earlier, content>>

\* topological_sort: the outer loop is exhausted; return stack
SortReturn ==
    /\ pc = "sort"
    /\ frames = <<>>
    /\ \A node \in nodes : visited[node]
    /\ pc' = "sorted"
    /\ UNCHANGED <<nodes, graph, usr, log, raised, visited, stack, frames,
                   entered, earlier, content>>

\* a second run of the program has made the same add_edge calls in the same
\* order (so it makes no further ones) and sorts; the first run's list is
\* kept for comparison
Rerun ==
    /\ pc = "sorted"
    /\ earlier = NoResult
    /\ earlier' = [run |-> TRUE, list |-> stack]
    /\ pc' = "idle"
    /\ visited' = [k \in {} |-> FALSE]
    /\ stack' = <<>>
    /\ frames' = <<>>
    /\ entered' = [k \in {} |-> 0]
    /\ UNCHANGED <<nodes, graph, raised, AmalVars>>

Sort == TopologicalSort \/ SortCall \/ UtilRecur \/ UtilSkip \/ UtilReturn
            \/ SortReturn

\* ----------------------------------------- declarations.py, amalgamation.py

\* clang types as the parser reports them: kind is TypeKind.value, usr is the
\* USR of the type's declaration, uses the USRs of the named types it is
\* built from
NoType == [spelling |-> "", kind |-> 0, usr |-> "", uses |-> {}]
VoidType == [spelling |-> "void", kind |-> VOID, usr |-> "", uses |-> {}]
IntType == [spelling |-> "int", kind |-> 17, usr |-> "", uses |-> {}]
StructS == [spelling |-> "struct S", kind |-> 105, usr |-> "c:@S@S", uses |-> {}]
TypedefT == [spelling |-> "T", kind |-> TYPEDEF, usr |-> "c:@T@T",
             uses |-> {"c:@S@S"}]

ValueTypes == {IntType, StructS, TypedefT}
ResultTypes == {VoidType} \cup ValueTypes

RECURSIVE SeqsUpTo(_, _)
SeqsUpTo(S, n) ==
    IF n = 0 THEN {<<>>}
    ELSE LET R == SeqsUpTo(S, n - 1)
         IN R \cup {Append(r, x) : r \in {q \in R : Len(q) = n - 1}, x \in S}

\* the top-level cursors _node_visitor passes to _symbol_visitor; two source
\* units may declare one USR with different types
VarCursors ==
    [usr : {"c:@x", "c:@y"}, kind : {"VAR_DECL"}, type : ValueTypes,
     result_type : {NoType}, arguments : {<<>>}]
FunctionCursors ==
    [usr : {"c:@F@f"}, kind : {"FUNCTION_DECL"}, type : {NoType},
     result_type : ResultTypes, arguments : SeqsUpTo(ValueTypes, MaxArgs)]
Cursors == VarCursors \cup FunctionCursors

IsBasicAboveVoid(t) == VOID < t.kind /\ t.kind <= NULLPTR

\* _Type.is_basic
IsBasic(t) == VOID <= t.kind /\ t.kind <= NULLPTR

\* None, the node add_edge is given for a basic type
NoneKey == <<"NoneType", "">>
NoneObject == [key |-> NoneKey, id |-> 0]

\* _Type(t): __hash__/__eq__ compare the class and the USR; every use builds
\* a new object
TypeObject(t) == [key |-> <<"_Type", t.usr>>, id |-> 1]

\* Variable(cursor), Function(cursor): Symbol.__hash__/__eq__ compare the
\* class and the USR
SymbolObject(class, cursor) == [key |-> <<class, cursor.usr>>, id |-> 2]

\* type_ = None if t.is_basic else t
TypeOrNone(t) == IF IsBasic(t) THEN NoneObject ELSE TypeObject(t)

\* _resolve_typedef_declaration, _resolve_elaborated_declaration,
\* _resolve_pointer_declaration: each is `pass`
ResolveTypedefDeclaration(G, t) == G
ResolveElaboratedDeclaration(G, t) == G
ResolvePointerDeclaration(G, t) == G

\* _resolve_type_dependencies
ResolveTypeDependencies(G, t) ==
    CASE t.kind = TYPEDEF -> ResolveTypedefDeclaration(G, t)
      [] t.kind = ELABORATED -> ResolveElaboratedDeclaration(G, t)
      [] t.kind = POINTER -> ResolvePointerDeclaration(G, t)
      [] OTHER -> G

\* _register_symbol, on A = [nodes, graph, raised, usr]
RegisterSymbol(A, class, cursor) ==
    IF A.raised # "none" THEN A
    ELSE [A EXCEPT !.usr = [k \in DOMAIN A.usr \cup {cursor.usr} |->
                              IF k = cursor.usr
                              THEN [class |-> class, cursor |-> cursor]
                              ELSE A.usr[k]]]

AddVariableReversed(A, cursor) ==
    LET variable == SymbolObject("Variable", cursor)
        A1 == AddEdgeTo(A, variable, TypeOrNone(cursor.type))
        A2 == ResolveTypeDependencies(A1, cursor.type)
    IN RegisterSymbol(A2, "Variable", cursor)

\* _add_variable
AddVariable(A, cursor) ==
    LET variable == SymbolObject("Variable", cursor)
        A1 == AddEdgeTo(A, TypeOrNone(cursor.type), variable)
        A2 == ResolveTypeDependencies(A1, cursor.type)
    IN RegisterSymbol(A2, "Variable", cursor)

\* _add_function: the loop over function.arguments, from the i-th on
RECURSIVE AddArguments(_, _, _)
AddArguments(A, cursor, i) ==
    IF i > Len(cursor.arguments) THEN A
    ELSE LET t == cursor.arguments[i]
             A1 == AddEdgeTo(A, TypeOrNone(t), SymbolObject("Function", cursor))
             A2 == ResolveTypeDependencies(A1, t)
         IN AddArguments(A2, cursor, i + 1)

\* _add_function
AddFunction(A, cursor) ==
    LET function == SymbolObject("Function", cursor)
        A1 == AddEdgeTo(A, TypeOrNone(cursor.result_type), function)
        A2 == ResolveTypeDependencies(A1, cursor.result_type)
        A3 == AddArguments(A2, cursor, 1)
    IN RegisterSymbol(A3, "Function", cursor)

IsDuplicateNever(registry, cursor) == FALSE

\* _symbol_visitor: usr in self.usr.keys()
IsDuplicate(registry, cursor) == cursor.usr \in DOMAIN registry

\* _symbol_visitor(cursor), called by _node_visitor for the VAR_DECL and
\* FUNCTION_DECL children of a translation unit
SymbolVisitor(cursor) ==
    /\ pc = "idle"
    /\ IF IsDuplicate(usr, cursor)
       THEN /\ log < MaxDup
            /\ log' = log + 1
            /\ UNCHANGED <<nodes, graph, usr, raised, pc>>
       ELSE LET A0 == [nodes |-> nodes, graph |-> graph, raised |-> raised,
                       usr |-> usr]
                A1 == IF cursor.kind = "VAR_DECL"
                      THEN AddVariable(A0, cursor) ELSE A0
                A2 == IF cursor.kind = "FUNCTION_DECL"
                      THEN AddFunction(A1, cursor) ELSE A1
            IN /\ nodes' = A2.nodes
               /\ graph' = A2.graph
               /\ usr' = A2.usr
               /\ raised' = A2.raised
               /\ pc' = IF A2.raised = "none" THEN pc ELSE "failed"
               /\ UNCHANGED log
    /\ UNCHANGED <<SortLocals, earlier, content>>

\* Variable/Function/_Type.get_declaration_text, by the node's class
DeclarationText(node) ==
    CASE node[1] = "Variable" -> <<"extern", node[2]>>
      [] node[1] = "Function" -> <<"prototype", node[2]>>
      [] node[1] = "_Type" -> <<"/* _Type */", node[2]>>

SkipNodeNotSymbol(decl) == decl[1] \notin {"Variable", "Function"}

\* get_content: if decl is None: continue
SkipNode(decl) == decl = NoneKey

\* get_content: the loop over sorted_usr, from the i-th node on
RECURSIVE ContentFrom(_, _)
ContentFrom(sorted, i) ==
    IF i > Len(sorted) THEN <<>>
    ELSE IF SkipNode(sorted[i]) THEN ContentFrom(sorted, i + 1)
    ELSE <<DeclarationText(sorted[i])>> \o ContentFrom(sorted, i + 1)

\* get_content, after get_declarations (topological_sort) has returned
GetContent ==
    /\ pc = "sorted"
    /\ content' = ContentFrom(stack, 1)
    /\ pc' = "content"
    /\ UNCHANGED <<nodes, graph, usr, log, raised, SortLocals, earlier>>

\* Graph.__init__ and Amalgamation.__init__
Init ==
    /\ nodes = {}
    /\ graph = [k \in {} |-> <<>>]
    /\ usr = [k \in {} |-> <<>>]
    /\ log = 0
    /\ pc = "idle"
    /\ raised = "none"
    /\ visited = [k \in {} |-> FALSE]
    /\ stack = <<>>
    /\ frames = <<>>
    /\ entered = [k \in {} |-> 0]
    /\ earlier = NoResult
    /\ content = <<>>

Next ==
    \/ \E u, v \in Objects : AddEdge(u, v)
    \/ Sort
    \/ Rerun

Spec == Init /\ [][Next]_vars

\* AmalSpec: parse (the cursors visited) and get_content
AmalNext ==
    \/ \E cursor \in Cursors : SymbolVisitor(cursor)
    \/ Sort
    \/ GetContent

AmalSpec == Init /\ [][AmalNext]_vars

\* FairSpec: a started topological_sort keeps running (a synchronous call)
FairSpec == Spec /\ WF_vars(Sort)

\* ------------------------------------------------------------ properties

Successors(g, S) == UNION {Range(GraphGet(g, k)) : k \in S}

RECURSIVE ReachableIn(_, _, _)
ReachableIn(g, S, n) ==
    IF n = 0 THEN {}
    ELSE LET T == Successors(g, S) IN T \cup ReachableIn(g, T, n - 1)

\* the nodes reachable from k along at least one edge
Descendants(g, k) == ReachableIn(g, {k}, Cardinality(nodes))

Cyclic(g) == \E k \in nodes : k \in Descendants(g, k)

\* a cycle through two or more nodes
MutualCycle(g) ==
    \E k, m \in nodes :
        k # m /\ m \in Descendants(g, k) /\ k \in Descendants(g, m)

Index(s, x) == CHOOSE i \in 1..Len(s) : s[i] = x

NoDuplicates(s) == \A i, j \in 1..Len(s) : s[i] = s[j] => i = j

\* C1: for an acyclic graph, every edge U -> V has U at a strictly smaller
\* index than V in the list topological_sort returns, whatever node the outer
\* loop starts from.
C1_EdgesRespected ==
    (pc = "sorted" /\ ~Cyclic(graph)) =>
        \A u \in nodes : \A v \in Range(GraphGet(graph, u)) :
            Index(stack, u) < Index(stack, v)

\* a sort of an acyclic graph with a path of two edges has returned, the
\* descendant having been the first start node
C1_Witness ==
    /\ pc = "sorted"
    /\ ~Cyclic(graph)
    /\ \E u, v, w \in nodes :
          /\ v \in Range(GraphGet(graph, u))
          /\ w \in Range(GraphGet(graph, v))
          /\ stack[Len(stack)] = w
          /\ entered[w] = 1

\* C2: the returned list holds exactly the inserted nodes, each once, so its
\* length is nodes_count; while the sort runs the list never holds a node
\* twice nor a node that was not inserted.
C2_ExactlyTheNodes ==
    /\ pc \in {"sort", "sorted"} =>
          NoDuplicates(stack) /\ Range(stack) \subseteq nodes
    /\ pc = "sorted" =>
          Range(stack) = nodes /\ Len(stack) = Cardinality(nodes)

\* a sort of a cyclic graph with a repeated edge has returned
C2_Witness ==
    /\ pc = "sorted"
    /\ Cyclic(graph)
    /\ \E u \in nodes : ~NoDuplicates(GraphGet(graph, u))
    /\ Len(stack) = Cardinality(nodes)

\* C4: on a graph with a cycle (two or more nodes depending on each other)
\* the linearizer reports CyclicDependency; it does not return a node sequence.
C4_CycleReported ==
    pc = "sorted" => ~MutualCycle(graph)

\* C6: add_edge(u, v) with u and v equal as nodes (equal key, the same object
\* or not) fails with the assertion and changes neither the node set nor the
\* adjacency lists.
C6_SelfEdgeRejected ==
    [][\A u, v \in Objects :
          (AddEdge(u, v) /\ u.key = v.key) =>
              /\ raised' = "AssertionError"
              /\ nodes' = nodes
              /\ graph' = graph]_vars

\* C7: two runs making the same add_edge calls in the same order return the
\* same list (stated for the acyclic graphs, which have a valid order).
C7_SameListEveryRun ==
    (pc = "sorted" /\ earlier.run /\ ~Cyclic(graph)) => stack = earlier.list

\* C10: _topological_sort_util is entered at most once per node, the depth
\* of the recursion never exceeds the node count, and a started sort returns.
C10_Terminates ==
    /\ [](pc \in {"sort", "sorted"} =>
            /\ \A k \in nodes : entered[k] <= 1
            /\ Len(frames) <= Cardinality(nodes))
    /\ (pc = "sort" ~> pc = "sorted")

\* the recursion is as deep as a cycle through every inserted node
C10_Witness ==
    /\ pc = "sort"
    /\ Cyclic(graph)
    /\ Len(frames) = Cardinality(nodes)
    /\ Len(frames) >= 3

\* the node of a registered symbol
SymbolKey(symbol) == <<symbol.class, symbol.cursor.usr>>

\* the types a registered symbol was admitted with: its own type, or its
\* return type and parameter types
TypesOf(symbol) ==
    IF symbol.class = "Variable" THEN {symbol.cursor.type}
    ELSE {symbol.cursor.result_type} \cup Range(symbol.cursor.arguments)

Registered == {usr[k] : k \in DOMAIN usr}

Primitive(t) == t.kind \in VOID..NULLPTR

DeclarationNodes == {SymbolKey(symbol) : symbol \in Registered}

NamedTypeNodes ==
    {<<"_Type", t.usr>> :
        t \in {x \in UNION {TypesOf(symbol) : symbol \in Registered} :
                  ~Primitive(x)}}

HasPrimitive(symbol) == \E t \in TypesOf(symbol) : Primitive(t)

\* the types of a registered symbol in the order admission walks them
TypeSeqOf(symbol) ==
    IF symbol.class = "Variable" THEN <<symbol.cursor.type>>
    ELSE <<symbol.cursor.result_type>> \o symbol.cursor.arguments

IsPrimitive(t) == Primitive(t)

Occurrences(s, x) == Cardinality({i \in 1..Len(s) : s[i] = x})

\* C3: _symbol_visitor on a cursor whose USR is already registered leaves
\* the registry, the node set and the adjacency lists as they were.
C3_ReadmissionNoOp ==
    [][\A cursor \in Cursors :
          (SymbolVisitor(cursor) /\ cursor.usr \in DOMAIN usr) =>
              /\ usr' = usr
              /\ nodes' = nodes
              /\ graph' = graph]_vars

\* a USR was sighted a second time, after a declaration with a named type
\* and one with a basic type were admitted
C3_Witness ==
    /\ log >= 1
    /\ Cardinality(DOMAIN usr) >= 2
    /\ NoneKey \in nodes
    /\ NamedTypeNodes # {}

C8_TypeEdges ==
    \A symbol \in Registered : \A t \in TypesOf(symbol) :
        ~Primitive(t) =>
            \A d \in t.uses :
                <<"_Type", t.usr>> \in Range(GraphGet(graph, <<"_Type", d>>))

IsSymbolLine(line) == line[1] \in {"extern", "prototype"}

\* C9 as claimed: get_content has one line per admitted declaration and no
\* other line.
C9_OnlyDeclarationLines ==
    pc = "content" =>
        /\ Len(content) = Cardinality(DOMAIN usr)
        /\ \A i \in 1..Len(content) : IsSymbolLine(content[i])

NotNone(node) == node # NoneKey

\* C9 as amended: get_content has one line per node of the sorted list other
\* than None, in the list's order: one per admitted declaration and one
\* comment line per named type node.
C9_LinePerNodeButNone ==
    pc = "content" =>
        LET kept == SelectSeq(stack, NotNone)
        IN /\ Len(content) = Len(kept)
           /\ \A i \in 1..Len(kept) : content[i][2] = kept[i][2]
           /\ \A i \in 1..Len(kept) :
                 IsSymbolLine(content[i]) <=> kept[i] \in DeclarationNodes
           /\ Len(content) = Cardinality(DOMAIN usr)
                               + Cardinality(NamedTypeNodes)

\* the content of two declarations, a named type node and None is composed
C9_Witness ==
    /\ pc = "content"
    /\ Cardinality(DOMAIN usr) >= 2
    /\ NoneKey \in nodes
    /\ NamedTypeNodes # {}
    /\ Len(content) = Cardinality(nodes) - 1

TypeSide(node) == node[1] \in {"_Type", "NoneType"}

Edges(g) == UNION {{<<u, g[u][i]>> : i \in 1..Len(g[u])} : u \in DOMAIN g}

\* C11: after any sequence of admissions every edge goes from a _Type node or
\* None to the node of an admitted Variable or Function, so no declaration
\* node has an outgoing edge and no type-side node an incoming one; the graph
\* has no self-edge and no cycle, the assertion of add_edge never fires, and
\* the list get_declarations returns has every edge's source before its
\* target.
C11_TypeToDeclarationEdges ==
    /\ raised = "none" /\ pc # "failed"
    /\ pc = "idle" =>
          LET E == Edges(graph)
          IN /\ \A e \in E :
                   /\ e[1] \in nodes /\ TypeSide(e[1])
                   /\ e[2] \in DeclarationNodes
                   /\ e[1] # e[2]
             /\ \A k \in nodes :
                   /\ k \in DeclarationNodes => GraphGet(graph, k) = <<>>
                   /\ TypeSide(k) => \A e \in E : e[2] # k
             /\ ~Cyclic(graph)
    /\ pc = "sorted" =>
          \A e \in Edges(graph) : Index(stack, e[1]) < Index(stack, e[2])

\* get_declarations has returned for a function with a named and a basic
\* type and a variable: edges leave a _Type node and None
C11_Witness ==
    /\ pc = "sorted"
    /\ Cardinality(DOMAIN usr) >= 2
    /\ \E e, f \in Edges(graph) :
          /\ e[1] = NoneKey
          /\ f[1][1] = "_Type"
          /\ e[2] = f[2]
          /\ e[2][1] = "Function"
    /\ \E e \in Edges(graph) : e[2][1] = "Variable"

====
